---- MODULE Spec2Model ----
(***************************************************************************)
(* Shrimp-pond RAG pipeline: ingestion into the ChromaDB collection,        *)
(* similarity search, retrieval with threshold and metadata filters, the    *)
(* pipeline-level query and the reset of the vector store.                  *)
(*                                                                          *)
(* Conventions of the model                                                 *)
(*  - a str (a key, a value, page_content, a query) is the sequence of its *)
(*    units of text, "" is <<>>; a line of a formatted record is one unit  *)
(*    and so is the "\n" between two lines;                                *)
(*  - a dict is a sequence of <<key, value>> pairs in insertion order;      *)
(*  - distances and similarity scores are in tenths (One = 1.0);            *)
(*  - the ChromaDB collection is the sequence of its entries in insertion   *)
(*    order; its add ignores ids that are already stored, its query returns *)
(*    the nearest entries by ascending distance in an unspecified order     *)
(*    among equal distances.                                                *)
(***************************************************************************)
EXTENDS Integers, Sequences, FiniteSets, TLC

(* ------------------------------ bounds --------------------------------- *)
\* records in one input file
MaxRecords == 3
\* entries the collection may hold
MaxStore == 3
\* chunk_size of the pipeline's splitter, scaled down to units of text
ChunkSize == 7
\* chunk_overlap of the pipeline's splitter, scaled down likewise
ChunkOverlap == 1
\* keys of a record given to the normalizer or the formatter
MaxKeys == 4
\* times the normalizer is applied in a row
MaxCalls == 2
\* characters of a text given to the chunker
MaxText == 7
\* largest chunk_size the chunker is tried with
MaxChunkSize == 4
\* units of a query text
MaxQuery == 3
\* pipelines constructed in one process
MaxPipelines == 4

(* --------------------------- program constants -------------------------- *)
\* retrieve(..., top_k: int = 5, ...)
DefaultTopK == 5
\* add_documents(..., batch_size: int = 100)
DefaultBatchSize == 100
\* similarity_score = 1 - distance, in tenths
One == 10
\* similarity_threshold: float = 0.0
DefaultThreshold == 0

VARIABLES
    collection,   \* entries persisted in the backend under collection_name
    alive,        \* self.collection is bound to a collection the backend still holds
    last          \* the last call: its operation and whether it returned or raised

vars == <<collection, alive, last>>

Min(a, b) == IF a <= b THEN a ELSE b

Range(s) == {s[i] : i \in 1..Len(s)}

NoValue == "none"

(* ------------------------------ input data ------------------------------ *)
\* a str is the sequence of its units of text; these units are white space
Whitespace == {" ", "\t", "\n"}

\* the JSON values: null, a string, a number (int, float), true / false, and
\* an array of strings as the value that is none of these
JsonNull == [t |-> "null", v |-> <<>>]

Str(units) == [t |-> "str", v |-> units]

JsonInt(n) == [t |-> "int", v |-> n]

\* a float, held in tenths
JsonFloat(n) == [t |-> "float", v |-> n]

JsonBool(b) == [t |-> "bool", v |-> b]

JsonList(strings) == [t |-> "list", v |-> strings]

Mapping(items) == [kind |-> "mapping", items |-> items]

rA == Mapping(<< << <<"Pond">>, Str(<<"A">>) >>,
                 << <<"status">>, Str(<<"ACTIVE", " ">>) >>,
                 << <<"Crop ID", " ">>, Str(<<"C1">>) >> >>)
rB == Mapping(<< << <<" ", "Pond">>, Str(<<" ", "B">>) >>,
                 << <<"status">>, Str(<<"HARVESTED">>) >>,
                 << <<"Crop ID">>, JsonList(<< <<"C2">> >>) >> >>)
rLong == Mapping(<< << <<"Pond">>, Str(<<"A">>) >>,
                    << <<"status">>, JsonNull >>,
                    << <<"Feed">>, JsonInt(12) >>,
                    << <<"Notes">>, Str(<<"n">>) >> >>)
\* an element of the JSON array that is no object (a string, a number)
rScalar == [kind |-> "scalar", items |-> <<>>]

RawRecords == {rA, rB, rLong}

InputFiles == UNION {[1..n -> RawRecords] : n \in 0..MaxRecords}

\* the top-level value of a JSON file: an array, an object (with what its
\* "data" key holds, if it has one), or a scalar
JsonArray(records) == [top |-> "array", records |-> records, data |-> <<>>]

JsonObject(data) == [top |-> "object", records |-> <<>>, data |-> <<data>>]

JsonObjectNoData == [top |-> "object", records |-> <<>>, data |-> <<>>]

JsonScalar == [top |-> "scalar", records |-> <<>>, data |-> <<>>]

\* files that are no plain array of records
SpecialFiles ==
    {JsonObjectNoData, JsonScalar, JsonObject(JsonScalar), JsonObject(JsonArray(<<rA>>)),
     JsonArray(<<rScalar>>), JsonArray(<<rScalar, rB>>)}

JsonFiles == {JsonArray(f) : f \in InputFiles} \cup SpecialFiles

\* os.path.basename(data_file_path)
DataSource == "pond_data.json"

(* ------------------------------ dict helpers ---------------------------- *)
DictKeys(d) == {d[i][1] : i \in 1..Len(d)}

DictGet(d, key, default) ==
    IF key \in DictKeys(d)
    THEN LET i == CHOOSE j \in 1..Len(d) : d[j][1] = key IN d[i][2]
    ELSE default

\* d[key] = value: an existing key keeps its position, a new key goes last
DictSet(d, key, value) ==
    IF key \in DictKeys(d)
    THEN [i \in 1..Len(d) |-> IF d[i][1] = key THEN <<key, value>> ELSE d[i]]
    ELSE Append(d, <<key, value>>)

(* ------------------------------ DataLoader ------------------------------ *)
\* records = data.get('data', data) if isinstance(data, dict) else data
loaded_records(data) ==
    IF data.top = "object" /\ data.data # <<>> THEN data.data[1] ELSE data

\* load_json: raises unless the records are a list
load_json(data) ==
    LET records == loaded_records(data)
    IN IF records.top # "array"
       THEN [outcome |-> "raise", value |-> NoValue]
       ELSE [outcome |-> "ok", value |-> records.records]

(* ------------------------- DataPreprocessor ----------------------------- *)
RECURSIVE lstrip(_)
lstrip(s) == IF s # <<>> /\ Head(s) \in Whitespace THEN lstrip(Tail(s)) ELSE s

RECURSIVE rstrip(_)
rstrip(s) ==
    IF s # <<>> /\ s[Len(s)] \in Whitespace THEN rstrip(SubSeq(s, 1, Len(s) - 1)) ELSE s

\* a strip that takes one unit of white space off each end
strip_one(s) ==
    LET l == IF s # <<>> /\ Head(s) \in Whitespace THEN Tail(s) ELSE s
    IN IF l # <<>> /\ l[Len(l)] \in Whitespace THEN SubSeq(l, 1, Len(l) - 1) ELSE l

\* str.strip()
strip(s) == rstrip(lstrip(s))

\* str(value) of a list of strings: ['a', 'b']
RECURSIVE repr_items(_)
repr_items(strings) ==
    IF strings = <<>> THEN <<>>
    ELSE <<"'">> \o Head(strings) \o <<"'">>
         \o (IF Len(strings) > 1 THEN <<",", " ">> ELSE <<>>)
         \o repr_items(Tail(strings))

py_str(value) == <<"[">> \o repr_items(value.v) \o <<"]">>

\* isinstance(value, (int, float)): bool is a subclass of int
is_number(value) == value.t \in {"int", "float", "bool"}

\* a cleaning that leaves every value that is no null and no str as it is
clean_value_keep_other(value) ==
    IF value.t = "null" THEN Str(<<"N/A">>)
    ELSE IF value.t = "str" THEN Str(strip(value.v))
    ELSE value

clean_value(value) ==
    IF value.t = "null" THEN Str(<<"N/A">>)
    ELSE IF value.t = "str" THEN Str(strip(value.v))
    ELSE IF is_number(value) THEN value
    ELSE Str(py_str(value))

RECURSIVE clean_items(_, _)
clean_items(items, cleaned) ==
    IF items = <<>> THEN cleaned
    ELSE clean_items(Tail(items),
                     DictSet(cleaned, strip(Head(items)[1]), clean_value(Head(items)[2])))

\* a cleaning that keeps the keys as they are
RECURSIVE clean_items_raw_keys(_, _)
clean_items_raw_keys(items, cleaned) ==
    IF items = <<>> THEN cleaned
    ELSE clean_items_raw_keys(Tail(items),
                              DictSet(cleaned, Head(items)[1], clean_value(Head(items)[2])))

clean_record_raw_keys(record) == clean_items_raw_keys(record.items, <<>>)

\* record.items() raises for an element that is no mapping
clean_record_raises(record) == record.kind # "mapping"

clean_record(record) == clean_items(record.items, <<>>)

\* a loop that ends at the first record that fails
RECURSIVE preprocess_records_break(_)
preprocess_records_break(records) ==
    IF records = <<>> THEN <<>>
    ELSE IF clean_record_raises(Head(records))
         THEN <<>>
         ELSE <<clean_record(Head(records))>> \o preprocess_records_break(Tail(records))

RECURSIVE preprocess_records(_)
preprocess_records(records) ==
    IF records = <<>> THEN <<>>
    ELSE IF clean_record_raises(Head(records))
         THEN preprocess_records(Tail(records))
         ELSE <<clean_record(Head(records))>> \o preprocess_records(Tail(records))

RECURSIVE concat(_)
concat(units) == IF units = <<>> THEN "" ELSE Head(units) \o concat(Tail(units))

\* f"{value}"
format_value(value) ==
    IF value.t = "str" THEN concat(value.v)
    ELSE IF value.t = "int" THEN ToString(value.v)
    ELSE IF value.t = "float"
         THEN ToString(value.v \div 10) \o "." \o ToString(value.v % 10)
    ELSE IF value.t = "bool" THEN (IF value.v THEN "True" ELSE "False")
    ELSE IF value.t = "null" THEN "None"
    ELSE concat(py_str(value))

Unknown == Str(<<"Unknown">>)

\* skip_keys without "status"
SkipKeysNoStatus == {<<"Pond">>, <<"Crop ID">>}

SkipKeys == {<<"Pond">>, <<"Crop ID">>, <<"status">>}

RECURSIVE other_lines(_)
other_lines(items) ==
    IF items = <<>> THEN <<>>
    ELSE IF Head(items)[1] \in SkipKeys
         THEN other_lines(Tail(items))
         ELSE <<concat(Head(items)[1]) \o ": " \o format_value(Head(items)[2])>>
              \o other_lines(Tail(items))

\* "\n".join(lines): the lines are units of the text, "\n" between them
RECURSIVE join_lines(_)
join_lines(lines) ==
    IF lines = <<>> THEN <<>>
    ELSE (IF Head(lines) = "" THEN <<>> ELSE <<Head(lines)>>)
         \o (IF Len(lines) > 1 THEN <<"\n">> ELSE <<>>)
         \o join_lines(Tail(lines))

record_lines(record) ==
    << "Pond: " \o format_value(DictGet(record, <<"Pond">>, Unknown)),
       "Crop ID: " \o format_value(DictGet(record, <<"Crop ID">>, Unknown)),
       "Status: " \o format_value(DictGet(record, <<"status">>, Unknown)),
       "" >> \o other_lines(record)

format_record_as_text(record) == join_lines(record_lines(record))

convert_to_documents(records, source) ==
    [i \in 1..Len(records) |->
        [page_content |-> format_record_as_text(records[i]),
         metadata |-> [source |-> source,
                       record_index |-> i - 1,
                       pond |-> DictGet(records[i], <<"Pond">>, Unknown),
                       crop_id |-> DictGet(records[i], <<"Crop ID">>, Unknown),
                       status |-> DictGet(records[i], <<"status">>, Unknown)]]]

(* ------------------------------ chunking -------------------------------- *)
\* RecursiveCharacterTextSplitter(chunk_size, chunk_overlap, separators), with
\* its defaults keep_separator = True, strip_whitespace = True, length = len.
\* separators: "\n\n", "\n", " ", ""
Separators == << <<"\n", "\n">>, <<"\n">>, <<" ">>, <<>> >>

\* sep is at the head of text
starts_with(text, sep) == Len(sep) <= Len(text) /\ SubSeq(text, 1, Len(sep)) = sep

\* re.search(separator, text)
RECURSIVE found_in(_, _)
found_in(sep, text) ==
    IF Len(text) < Len(sep) THEN FALSE
    ELSE starts_with(text, sep) \/ found_in(sep, Tail(text))

\* re.split at the matches of sep, from the left: the pieces between them
RECURSIVE split_pieces(_, _, _)
split_pieces(text, sep, piece) ==
    IF text = <<>> THEN <<piece>>
    ELSE IF starts_with(text, sep)
         THEN <<piece>> \o split_pieces(SubSeq(text, Len(sep) + 1, Len(text)), sep, <<>>)
         ELSE split_pieces(Tail(text), sep, Append(piece, Head(text)))

\* _split_text_with_regex, keep_separator = True: every separator stays at the
\* head of the piece that follows it; the empty pieces are dropped
split_text_with_regex(text, sep) ==
    IF sep = <<>>
    THEN [i \in 1..Len(text) |-> <<text[i]>>]
    ELSE LET pieces == split_pieces(text, sep, <<>>)
             splits == [i \in 1..Len(pieces) |->
                           IF i = 1 THEN pieces[1] ELSE sep \o pieces[i]]
         IN SelectSeq(splits, LAMBDA piece : piece # <<>>)

\* "".join(docs) of the pieces of one chunk
RECURSIVE join_docs(_)
join_docs(docs) == IF docs = <<>> THEN <<>> ELSE Head(docs) \o join_docs(Tail(docs))

\* _join_docs: the joined text stripped, None (no chunk) when nothing is left
chunk_of(current_doc) ==
    LET text == strip(join_docs(current_doc))
    IN IF text = <<>> THEN <<>> ELSE <<text>>

\* the while loop of _merge_splits: drop pieces from the head of current_doc
\* until what is left is no more than the overlap and the new piece fits
RECURSIVE drop_head(_, _, _, _, _)
drop_head(current_doc, total, len, chunk_size, chunk_overlap) ==
    IF total > chunk_overlap \/ (total + len > chunk_size /\ total > 0)
    THEN drop_head(Tail(current_doc), total - Len(Head(current_doc)), len,
                   chunk_size, chunk_overlap)
    ELSE [current_doc |-> current_doc, total |-> total]

\* _merge_splits with the separator "" (keep_separator = True)
RECURSIVE merge_splits(_, _, _, _, _)
merge_splits(splits, current_doc, total, chunk_size, chunk_overlap) ==
    IF splits = <<>> THEN chunk_of(current_doc)
    ELSE LET d == Head(splits)
             full == total + Len(d) > chunk_size /\ current_doc # <<>>
             kept == IF full
                     THEN drop_head(current_doc, total, Len(d), chunk_size, chunk_overlap)
                     ELSE [current_doc |-> current_doc, total |-> total]
         IN (IF full THEN chunk_of(current_doc) ELSE <<>>)
            \o merge_splits(Tail(splits), Append(kept.current_doc, d),
                            kept.total + Len(d), chunk_size, chunk_overlap)

\* the position in separators of the separator _split_text picks: the first
\* one that is "" or occurs in the text, the last one when there is none
RECURSIVE pick_separator(_, _, _)
pick_separator(text, separators, i) ==
    IF i >= Len(separators) THEN Len(separators)
    ELSE IF separators[i] = <<>> \/ found_in(separators[i], text) THEN i
    ELSE pick_separator(text, separators, i + 1)

\* a splitter that does not go on to the finer separators
split_text_no_recursion(text, separators, chunk_size, chunk_overlap) ==
    LET k == pick_separator(text, separators, 1)
    IN merge_splits(split_text_with_regex(text, separators[k]), <<>>, 0,
                    chunk_size, chunk_overlap)

\* _split_text(text, separators)
RECURSIVE split_text(_, _, _, _)
RECURSIVE split_each(_, _, _, _, _)
split_each(splits, good_splits, new_separators, chunk_size, chunk_overlap) ==
    IF splits = <<>>
    THEN IF good_splits = <<>> THEN <<>>
         ELSE merge_splits(good_splits, <<>>, 0, chunk_size, chunk_overlap)
    ELSE LET piece == Head(splits)
         IN IF Len(piece) < chunk_size
            THEN split_each(Tail(splits), Append(good_splits, piece), new_separators,
                            chunk_size, chunk_overlap)
            ELSE (IF good_splits = <<>> THEN <<>>
                  ELSE merge_splits(good_splits, <<>>, 0, chunk_size, chunk_overlap))
                 \o (IF new_separators = <<>> THEN <<piece>>
                     ELSE split_text(piece, new_separators, chunk_size, chunk_overlap))
                 \o split_each(Tail(splits), <<>>, new_separators, chunk_size, chunk_overlap)

split_text(text, separators, chunk_size, chunk_overlap) ==
    LET k == pick_separator(text, separators, 1)
        separator == separators[k]
        new_separators == IF separator # <<>> /\ found_in(separator, text)
                          THEN SubSeq(separators, k + 1, Len(separators))
                          ELSE <<>>
    IN split_each(split_text_with_regex(text, separator), <<>>, new_separators,
                  chunk_size, chunk_overlap)

\* a splitting that gives every chunk the metadata of the first document
RECURSIVE split_documents_as(_, _)
split_documents_as(documents, metadata) ==
    IF documents = <<>> THEN <<>>
    ELSE LET pieces == split_text(Head(documents).page_content, Separators, ChunkSize,
                                  ChunkOverlap)
         IN [k \in 1..Len(pieces) |-> [page_content |-> pieces[k], metadata |-> metadata]]
            \o split_documents_as(Tail(documents), metadata)

split_documents_first_metadata(documents) ==
    IF documents = <<>> THEN <<>>
    ELSE split_documents_as(documents, Head(documents).metadata)

\* split_documents: every chunk of a document gets a copy of its metadata
RECURSIVE split_documents(_)
split_documents(documents) ==
    IF documents = <<>> THEN <<>>
    ELSE LET doc == Head(documents)
             pieces == split_text(doc.page_content, Separators, ChunkSize, ChunkOverlap)
         IN [k \in 1..Len(pieces) |->
                [page_content |-> pieces[k], metadata |-> doc.metadata]]
            \o split_documents(Tail(documents))

(* ------------------------------ embeddings ------------------------------ *)
\* the embedding model: a text's point in the embedding space
Encode(text) ==
    IF text[1] = "Pond: A" THEN 0
    ELSE IF text[1] = "Pond: B" THEN 1
    ELSE 2

generate_embeddings(texts) == [i \in 1..Len(texts) |-> Encode(texts[i])]

\* the distance the index reports between two points, in tenths
Distance(u, v) ==
    IF u = v THEN 0
    ELSE IF u - v = 1 \/ v - u = 1 THEN 5
    ELSE 12

(* ------------------------------ VectorStore ----------------------------- *)
\* uuid.uuid4().hex[:8]: a random 32-bit prefix
UuidPrefixes == {"a3f1c2d4", "9be07c55"}

Ids(coll) == {coll[i].id : i \in 1..Len(coll)}

doc_id(uuid, index) == "doc_" \o uuid \o "_" \o ToString(index)

build_entry(doc, embedding, uuid, index) ==
    [id |-> doc_id(uuid, index),
     content |-> doc.page_content,
     metadata |-> [source |-> doc.metadata.source,
                   record_index |-> doc.metadata.record_index,
                   pond |-> doc.metadata.pond,
                   crop_id |-> doc.metadata.crop_id,
                   status |-> doc.metadata.status,
                   doc_index |-> index,
                   content_length |-> Len(doc.page_content)],
     embedding |-> embedding]

\* collection.add rejects a batch that repeats an id
batch_has_duplicate_ids(batch) ==
    \E a, b \in 1..Len(batch) : a # b /\ batch[a].id = batch[b].id

\* an add that writes the batch over the stored entries
collection_add_replace(coll, batch) == batch

\* collection.add: entries whose id is already stored are ignored
collection_add(coll, batch) ==
    coll \o SelectSeq(batch, LAMBDA e : e.id \notin Ids(coll))

\* the except clause logs and re-raises, and the count is lost with the frame
add_documents_except_swallow(coll, total_added) ==
    [collection |-> coll, outcome |-> "ok", value |-> total_added]

\* except Exception as e: log, raise
add_documents_except(coll, total_added) ==
    [collection |-> coll, outcome |-> "raise", value |-> NoValue]

RECURSIVE add_batches(_, _, _, _, _, _, _, _, _)
add_batches(coll, bound, documents, embeddings, batch_size, uuids, failBatches, i, total_added) ==
    IF i >= Len(documents)
    THEN \* the closing log line reads self.collection.count()
         IF bound
         THEN [collection |-> coll, outcome |-> "ok", value |-> total_added]
         ELSE add_documents_except(coll, total_added)
    ELSE LET hi == Min(i + batch_size, Len(documents))
             batch == [j \in 1..(hi - i) |->
                          build_entry(documents[i + j], embeddings[i + j],
                                      uuids[i + j], i + j - 1)]
         IN IF ~bound \/ (i \div batch_size) \in failBatches
               \/ batch_has_duplicate_ids(batch)
            THEN add_documents_except(coll, total_added)
            ELSE add_batches(collection_add(coll, batch), bound, documents, embeddings,
                             batch_size, uuids, failBatches, hi, total_added + Len(batch))

\* an add without the length check: zip pairs documents and embeddings as
\* far as both go
add_documents_zip(coll, bound, documents, embeddings, batch_size, uuids, failBatches) ==
    LET n == Min(Len(documents), Len(embeddings))
    IN add_batches(coll, bound, SubSeq(documents, 1, n), SubSeq(embeddings, 1, n),
                   batch_size, uuids, failBatches, 0, 0)

\* embeddings.shape[0] is n_embeddings; failBatches are the batches whose
\* collection.add raises (a backend fault)
add_documents(coll, bound, documents, embeddings, batch_size, uuids, failBatches) ==
    IF Len(documents) # Len(embeddings)
    THEN [collection |-> coll, outcome |-> "raise", value |-> NoValue]
    ELSE add_batches(coll, bound, documents, embeddings, batch_size, uuids,
                     failBatches, 0, 0)

(* where_filter: <<>> is None, <<field, value>> is {field: {"$eq": value}} *)
NoFilter == <<>>

matches(entry, where_filter) ==
    where_filter = NoFilter \/ entry.metadata[where_filter[1]] = where_filter[2]

Matching(coll, where_filter) == {i \in 1..Len(coll) : matches(coll[i], where_filter)}

\* collection.query: the n_results nearest matching entries by ascending
\* distance; the order among equal distances is the index's. The set of the
\* answers the index may give, each a sequence of positions in the collection.
RECURSIVE nearest_first(_, _, _, _)
nearest_first(coll, query_embedding, candidates, n) ==
    IF n = 0 \/ candidates = {} THEN {<<>>}
    ELSE LET d(i) == Distance(query_embedding, coll[i].embedding)
             nearest == {i \in candidates : \A j \in candidates : d(i) <= d(j)}
         IN UNION {{<<i>> \o rest :
                       rest \in nearest_first(coll, query_embedding,
                                              candidates \ {i}, n - 1)} :
                   i \in nearest}

\* the matching entries in insertion order, not by distance
query_orders_by_insertion(coll, query_embedding, n_results, where_filter) ==
    LET hits == SelectSeq([i \in 1..Len(coll) |-> i],
                          LAMBDA i : i \in Matching(coll, where_filter))
    IN {SubSeq(hits, 1, Min(n_results, Len(hits)))}

query_orders(coll, query_embedding, n_results, where_filter) ==
    nearest_first(coll, query_embedding, Matching(coll, where_filter), n_results)

\* the rows search builds from the index's answer
search_results(coll, query_embedding, order) ==
    [i \in 1..Len(order) |->
        LET e == coll[order[i]]
            distance == Distance(query_embedding, e.embedding)
        IN [id |-> e.id,
            content |-> e.content,
            metadata |-> e.metadata,
            similarity_score |-> One - distance,
            distance |-> distance,
            rank |-> i]]

\* the error collection.query raises: the collection is gone, or the
\* backend faults
QueryError(bound) ==
    IF ~bound THEN "chromadb: collection does not exist" ELSE "chromadb: backend fault"

\* a call that raised error after the backend calls it made
Raised(error, calls) ==
    [outcome |-> "raise", value |-> NoValue, error |-> error, calls |-> calls]

\* a call that returned value after the backend calls it made
Returned(value, calls) ==
    [outcome |-> "ok", value |-> value, error |-> NoValue, calls |-> calls]

\* a search that fails on an answer without rows
search_fails_on_empty(coll, bound, query_embedding, order, fault) ==
    IF ~bound \/ fault \/ order = <<>>
    THEN Raised(QueryError(bound), <<"collection.query">>)
    ELSE Returned(search_results(coll, query_embedding, order), <<"collection.query">>)

\* search: one collection.query; the except clause logs and re-raises
search(coll, bound, query_embedding, order, fault) ==
    IF ~bound \/ fault
    THEN Raised(QueryError(bound), <<"collection.query">>)
    ELSE Returned(search_results(coll, query_embedding, order), <<"collection.query">>)

(* ------------------------------ Retriever ------------------------------- *)
generate_embedding_for_query(query) == generate_embeddings(<<query>>)[1]

\* raise ValueError("Query cannot be empty")
EmptyQueryError == "ValueError: Query cannot be empty"

\* generate_embedding_for_query as a call: "if not query" raises, every other
\* query gets generate_embeddings([query])[0]
embed_query(query) ==
    IF query = <<>>
    THEN [outcome |-> "raise", error |-> EmptyQueryError, value |-> NoValue]
    ELSE [outcome |-> "ok", error |-> NoValue, value |-> generate_embedding_for_query(query)]

\* the filter left out: every result of the search is kept
threshold_filter_keep_all(results, similarity_threshold) == results

\* a filter that keeps the results under the threshold
threshold_filter_below(results, similarity_threshold) ==
    SelectSeq(results, LAMBDA r : r.similarity_score < similarity_threshold)

threshold_filter(results, similarity_threshold) ==
    SelectSeq(results, LAMBDA r : r.similarity_score >= similarity_threshold)

\* a retrieve that answers a failed search with no results
retrieve_masks_failure(coll, bound, query, similarity_threshold, order, fault) ==
    LET embedded == embed_query(query)
    IN IF embedded.outcome = "raise"
       THEN Raised(embedded.error, <<>>)
       ELSE LET found == search(coll, bound, embedded.value, order, fault)
            IN IF found.outcome = "raise" THEN Returned(<<>>, found.calls)
               ELSE Returned(threshold_filter(found.value, similarity_threshold),
                             found.calls)

\* a retrieve that searches before it looks at the query
retrieve_searches_first(coll, bound, query, similarity_threshold, order, fault) ==
    LET found == search(coll, bound, 0, order, fault)
        embedded == embed_query(query)
    IN IF found.outcome = "raise" THEN found
       ELSE IF embedded.outcome = "raise" THEN Raised(embedded.error, found.calls)
       ELSE Returned(threshold_filter(found.value, similarity_threshold), found.calls)

\* retrieve: embed the query, search, filter; the except clause logs and
\* re-raises
retrieve(coll, bound, query, similarity_threshold, order, fault) ==
    LET embedded == embed_query(query)
    IN IF embedded.outcome = "raise"
       THEN Raised(embedded.error, <<>>)
       ELSE LET found == search(coll, bound, embedded.value, order, fault)
            IN IF found.outcome = "raise" THEN found
               ELSE Returned(threshold_filter(found.value, similarity_threshold),
                             found.calls)

\* the where_filter left out of the call
pond_filter_dropped(pond_name) == NoFilter

pond_filter(pond_name) == <<"pond", pond_name>>

status_filter(status) == <<"status", status>>

\* the index's answers to a search, when the search reaches the index
Orders(coll, bound, query_embedding, top_k, where_filter) ==
    IF ~bound THEN {<<>>}
    ELSE query_orders(coll, query_embedding, top_k, where_filter)

\* what search(query_embedding, top_k, where_filter) may return
search_returns(coll, bound, query_embedding, top_k, where_filter, fault) ==
    {search(coll, bound, query_embedding, order, fault) :
        order \in Orders(coll, bound, query_embedding, top_k, where_filter)}

\* what retrieve(query, top_k, similarity_threshold, where_filter) may return
retrieve_returns(coll, bound, q, top_k, similarity_threshold, where_filter, fault) ==
    {retrieve(coll, bound, q, similarity_threshold, order, fault) :
        order \in IF q = <<>> THEN {<<>>}
                  ELSE Orders(coll, bound, generate_embedding_for_query(q),
                              top_k, where_filter)}

retrieve_by_pond(coll, bound, q, pond_name, top_k, fault) ==
    retrieve_returns(coll, bound, q, top_k, DefaultThreshold,
                     pond_filter(pond_name), fault)

retrieve_by_status(coll, bound, q, status, top_k, fault) ==
    retrieve_returns(coll, bound, q, top_k, DefaultThreshold,
                     status_filter(status), fault)

(* ------------------------------ RAGPipeline ----------------------------- *)
\* ingest_data up to the call of add_documents: the chunks of a loaded file
chunked_docs(records, source) ==
    split_documents(convert_to_documents(preprocess_records(records), source))

page_contents(documents) == [i \in 1..Len(documents) |-> documents[i].page_content]

\* ingest_data up to the embeddings: load, preprocess, convert, split, embed
ingest_stage(file) ==
    LET loaded == load_json(file)
        chunks == IF loaded.outcome = "raise" THEN <<>>
                  ELSE chunked_docs(loaded.value, DataSource)
    IN [file |-> file,
        outcome |-> loaded.outcome,
        chunks |-> chunks,
        embeddings |-> generate_embeddings(page_contents(chunks))]

\* ingest_data from add_documents on: the count it returns, or the error
ingest_store(coll, bound, staged, uuids, failBatches) ==
    IF staged.outcome = "raise"
    THEN [collection |-> coll, outcome |-> "raise", value |-> NoValue]
    ELSE add_documents(coll, bound, staged.chunks, staged.embeddings,
                       DefaultBatchSize, uuids, failBatches)

ingest_data(coll, bound, file, uuids, failBatches) ==
    ingest_store(coll, bound, ingest_stage(file), uuids, failBatches)

\* _format_context
format_context(retrieved_docs) ==
    IF retrieved_docs = <<>> THEN <<"No relevant documents found.">>
    ELSE [i \in 1..Len(retrieved_docs) |-> retrieved_docs[i].content]

\* the error client.chat.completions.create raises
GenerationError == "openai: request failed"

\* query: retrieve, then build the prompt and call the LLM (llmFault: it raises)
query_result(got, q, llmFault) ==
    IF got.outcome = "raise" THEN got
    ELSE IF llmFault THEN Raised(GenerationError, Append(got.calls, "llm.generate"))
    ELSE Returned([query |-> q,
                   retrieved_documents |-> got.value,
                   context |-> format_context(got.value),
                   response |-> "response",
                   num_documents_retrieved |-> Len(got.value)],
                  Append(got.calls, "llm.generate"))

\* what query(query, top_k) may return
query_returns(coll, bound, q, top_k, fault, llmFault) ==
    {query_result(got, q, llmFault) :
        got \in retrieve_returns(coll, bound, q, top_k, DefaultThreshold,
                                 NoFilter, fault)}

\* delete_collection: raises when the backend holds no such collection or faults
delete_collection_raises(bound, fault) == ~bound \/ fault = "delete"

\* _initialize_chromadb: raises when the client or the collection cannot be opened
initialize_chromadb_raises(fault) == fault = "init"

\* a reset that re-opens the collection without deleting it
reset_vectorstore_keep(coll, bound, fault) ==
    [collection |-> coll, alive |-> TRUE, outcome |-> "ok"]

\* a reset that deletes the collection and does not re-create it
reset_vectorstore_no_reinit(coll, bound, fault) ==
    IF delete_collection_raises(bound, fault)
    THEN [collection |-> coll, alive |-> bound, outcome |-> "raise"]
    ELSE [collection |-> <<>>, alive |-> FALSE, outcome |-> "ok"]

\* reset_vectorstore: delete_collection, then _initialize_chromadb
reset_vectorstore(coll, bound, fault) ==
    IF delete_collection_raises(bound, fault)
    THEN [collection |-> coll, alive |-> bound, outcome |-> "raise"]
    ELSE IF initialize_chromadb_raises(fault)
         THEN [collection |-> <<>>, alive |-> FALSE, outcome |-> "raise"]
         ELSE [collection |-> <<>>, alive |-> TRUE, outcome |-> "ok"]

(* ------------------------------ inputs ---------------------------------- *)
Queries == {<<>>, <<"Pond: A">>, <<"survival rate">>}

\* the points of the embedding space a search is asked about
QueryVectors == {Encode(<<"Pond: A">>), Encode(<<"Pond: B">>), Encode(<<"survival rate">>)}

TopKs == {1, 2, DefaultTopK}

Thresholds == {DefaultThreshold, One - 1}

Ponds == {Str(<<"A">>), Str(<<"B">>)}

Statuses == {Str(<<"ACTIVE">>), Str(<<"HARVESTED">>)}

Filters == {NoFilter} \cup {pond_filter(p) : p \in Ponds}
                      \cup {status_filter(t) : t \in Statuses}

BatchSizes == {1, 2, DefaultBatchSize}

ResetFaults == {"none", "delete", "init"}

\* the input files, each with the chunks ingest_data cuts it into
IngestInputs == {ingest_stage(f) : f \in JsonFiles}

\* the document lists add_documents is called with
DocumentLists == {inp.chunks : inp \in IngestInputs}

NumBatches(n, batch_size) == (n + batch_size - 1) \div batch_size

FailChoices(n, batch_size) == {{}} \cup {{k} : k \in 0..(NumBatches(n, batch_size) - 1)}

(* ------------------------------ actions --------------------------------- *)
Init ==
    /\ collection = <<>>
    /\ alive = TRUE
    /\ last = [op |-> "init", outcome |-> "ok"]

IngestData(inp, uuids, failBatches) ==
    LET r == ingest_store(collection, alive, inp, uuids, failBatches)
    IN /\ collection' = r.collection
       /\ last' = [op |-> "ingest_data", outcome |-> r.outcome]
       /\ UNCHANGED alive

AddDocuments(documents, extra, batch_size, uuids, failBatches) ==
    LET embeddings == generate_embeddings(page_contents(documents)) \o extra
        r == add_documents(collection, alive, documents, embeddings,
                           batch_size, uuids, failBatches)
    IN /\ collection' = r.collection
       /\ last' = [op |-> "add_documents", outcome |-> r.outcome]
       /\ UNCHANGED alive

Outcomes(returns) == {r.outcome : r \in returns}

Search(query_embedding, top_k, where_filter, fault) ==
    \E o \in Outcomes(search_returns(collection, alive, query_embedding, top_k,
                                      where_filter, fault)) :
       /\ last' = [op |-> "search", outcome |-> o]
       /\ UNCHANGED <<collection, alive>>

Retrieve(q, top_k, similarity_threshold, where_filter, fault) ==
    \E o \in Outcomes(retrieve_returns(collection, alive, q, top_k, similarity_threshold,
                                        where_filter, fault)) :
       /\ last' = [op |-> "retrieve", outcome |-> o]
       /\ UNCHANGED <<collection, alive>>

RetrieveByPond(q, pond_name, fault) ==
    \E o \in Outcomes(retrieve_by_pond(collection, alive, q, pond_name, DefaultTopK, fault)) :
       /\ last' = [op |-> "retrieve_by_pond", outcome |-> o]
       /\ UNCHANGED <<collection, alive>>

RetrieveByStatus(q, status, fault) ==
    \E o \in Outcomes(retrieve_by_status(collection, alive, q, status, DefaultTopK, fault)) :
       /\ last' = [op |-> "retrieve_by_status", outcome |-> o]
       /\ UNCHANGED <<collection, alive>>

Query(q, top_k, fault, llmFault) ==
    \E o \in Outcomes(query_returns(collection, alive, q, top_k, fault, llmFault)) :
       /\ last' = [op |-> "query", outcome |-> o]
       /\ UNCHANGED <<collection, alive>>

ResetVectorstore(fault) ==
    LET r == reset_vectorstore(collection, alive, fault)
    IN /\ collection' = r.collection
       /\ alive' = r.alive
       /\ last' = [op |-> "reset_vectorstore", outcome |-> r.outcome]

Next ==
    \/ \E inp \in IngestInputs :
          /\ Len(collection) + Len(inp.chunks) <= MaxStore
          /\ \E uuids \in [1..Len(inp.chunks) -> UuidPrefixes],
                failBatches \in FailChoices(Len(inp.chunks), DefaultBatchSize) :
                IngestData(inp, uuids, failBatches)
    \/ \E documents \in DocumentLists, batch_size \in BatchSizes \ {DefaultBatchSize} :
          /\ Len(collection) + Len(documents) <= MaxStore
          /\ \E uuids \in [1..Len(documents) -> UuidPrefixes],
                failBatches \in FailChoices(Len(documents), batch_size) :
                \E extra \in IF failBatches = {} /\ batch_size = 1 THEN {<<>>, <<0>>}
                              ELSE {<<>>} :
                   AddDocuments(documents, extra, batch_size, uuids, failBatches)
    \/ \E top_k \in {2, DefaultTopK}, fault \in BOOLEAN :
          Search(generate_embedding_for_query(<<"Pond: A">>), top_k, NoFilter, fault)
    \/ \E q \in {<<>>, <<"Pond: A">>}, similarity_threshold \in Thresholds :
          Retrieve(q, DefaultTopK, similarity_threshold, NoFilter, FALSE)
    \/ \E pond_name \in Ponds : RetrieveByPond(<<"Pond: A">>, pond_name, FALSE)
    \/ \E status \in Statuses : RetrieveByStatus(<<"Pond: A">>, status, FALSE)
    \/ \E llmFault \in BOOLEAN :
          Query(<<"Pond: A">>, DefaultTopK, FALSE, llmFault)
    \/ \E fault \in ResetFaults : ResetVectorstore(fault)

Spec == Init /\ [][Next]_vars

(* ------------- the normalizer and the formatter on one record ----------- *)
\* keys of a record: pinned keys, keys with white space around them (two of
\* them trim to the same key), other keys
KeyPool ==
    {<<"Pond">>, <<" ", "Pond">>, <<"Crop ID">>, <<"status">>, <<"Feed", "\t">>, <<"Notes">>}

\* values of a record: null, strings (empty, bare, with white space around
\* them), numbers, a boolean and a value of another type
ValuePool ==
    << JsonNull, Str(<<" ", "\n", "x", "y", "\t">>), JsonInt(12),
       JsonList(<< <<"C2">>, <<"C3">> >>), JsonFloat(125), Str(<<"A">>), JsonBool(TRUE),
       Str(<<>>), Str(<<" ">>) >>

\* the sequences of n distinct keys
KeyLists(n) == {keys \in [1..n -> KeyPool] : \A a, b \in 1..n : a # b => keys[a] # keys[b]}

\* the record with these keys, its values taken from ValuePool in turn
RecordOf(keys, shift) ==
    [i \in 1..Len(keys) |-> <<keys[i], ValuePool[((i + shift) % Len(ValuePool)) + 1]>>]

\* the records (dicts) one record-level call is given
TypedRecords ==
    {RecordOf(keys, shift) :
        keys \in UNION {KeyLists(n) : n \in 0..MaxKeys}, shift \in 1..Len(ValuePool)}

InitRecord ==
    /\ collection = <<>>
    /\ alive = TRUE
    /\ last \in {[op |-> "record", arg |-> <<>>, value |-> record, calls |-> 0] :
                    record \in TypedRecords}

\* _clean_record(record), on a record as loaded or on a normalized record
CleanRecord ==
    /\ last.op \in {"record", "_clean_record"}
    /\ last.calls < MaxCalls
    /\ last' = [op |-> "_clean_record",
                arg |-> last.value,
                value |-> clean_record(Mapping(last.value)),
                calls |-> last.calls + 1]
    /\ UNCHANGED <<collection, alive>>

\* _format_record_as_text(record), on a record as loaded or on a normalized record
FormatRecord ==
    /\ last.op \in {"record", "_clean_record"}
    /\ last' = [op |-> "_format_record_as_text",
                arg |-> last.value,
                value |-> format_record_as_text(last.value),
                calls |-> last.calls]
    /\ UNCHANGED <<collection, alive>>

NextRecord == CleanRecord \/ FormatRecord

SpecRecord == InitRecord /\ [][NextRecord]_vars

(* ------------- the preprocessor on one sequence of records -------------- *)
\* a record whose only key is no pinned key
rFeed == Mapping(<< << <<"Feed">>, JsonFloat(125) >> >>)

\* the elements of a loaded JSON array: objects, and an element that is none
BatchElements == RawRecords \cup {rFeed, rScalar}

\* the sequences load_json may hand to preprocess_records
RecordBatches == UNION {[1..n -> BatchElements] : n \in 0..MaxRecords}

InitBatch ==
    /\ collection = <<>>
    /\ alive = TRUE
    /\ last \in {[op |-> "load_json", outcome |-> "ok", records |-> records,
                   value |-> records] : records \in RecordBatches}

\* preprocess_records(records): every exception is caught inside the loop
PreprocessRecords ==
    /\ last.op = "load_json"
    /\ last' = [op |-> "preprocess_records", outcome |-> "ok", records |-> last.records,
                value |-> preprocess_records(last.value)]
    /\ UNCHANGED <<collection, alive>>

\* convert_to_documents(preprocessed_records, source)
ConvertToDocuments ==
    /\ last.op = "preprocess_records"
    /\ last' = [op |-> "convert_to_documents", outcome |-> "ok", records |-> last.records,
                value |-> convert_to_documents(last.value, DataSource)]
    /\ UNCHANGED <<collection, alive>>

NextBatch == PreprocessRecords \/ ConvertToDocuments

SpecBatch == InitBatch /\ [][NextBatch]_vars

(* ------------------------------ PromptBuilder --------------------------- *)
\* str.lower() of one unit of text
lower_unit(unit) ==
    CASE unit = "What is the " -> "what is the "
      [] unit = "Survival" -> "survival"
      [] unit = "FEED" -> "feed"
      [] unit = "Pond" -> "pond"
      [] OTHER -> unit

\* query.lower()
lower(query) == [i \in 1..Len(query) |-> lower_unit(query[i])]

\* keyword_mapping, in its insertion order
KeywordMapping ==
    << <<"survival", "survival_analysis">>,
       <<"feed", "feed_conversion">>,
       <<"fcr", "feed_conversion">>,
       <<"biomass", "biomass">>,
       <<"stocking", "biomass">>,
       <<"performance", "pond_performance">>,
       <<"pond", "pond_performance">> >>

\* the loop over keyword_mapping.items() from its i-th item on
RECURSIVE first_match(_, _)
first_match(query_lower, i) ==
    IF i > Len(KeywordMapping) THEN "general"
    ELSE IF found_in(<<KeywordMapping[i][1]>>, query_lower) THEN KeywordMapping[i][2]
    ELSE first_match(query_lower, i + 1)

\* a detection that takes the keyword that comes first in the query
RECURSIVE detect_by_position(_)
detect_by_position(query) ==
    IF query = <<>> THEN "general"
    ELSE IF \E i \in 1..Len(KeywordMapping) : KeywordMapping[i][1] = lower_unit(Head(query))
         THEN LET i == CHOOSE j \in 1..Len(KeywordMapping) :
                           KeywordMapping[j][1] = lower_unit(Head(query))
              IN KeywordMapping[i][2]
         ELSE detect_by_position(Tail(query))

detect_query_type(query) == first_match(lower(query), 1)

\* the hardcoded template of build_query_prompt
MinimalTemplate ==
    <<"Based on the following context, answer the question:\n", "{context}",
      "\n\nQuestion: ", "{query}">>

\* replacement fields str.format has no argument for
UnknownFields == {"{pond}", "{}"}

\* str.format(context=context, query=query) of a template that has only
\* fields it knows
RECURSIVE format_fields(_, _, _)
format_fields(template, context, query) ==
    IF template = <<>> THEN <<>>
    ELSE (IF Head(template) = "{context}" THEN context
          ELSE IF Head(template) = "{query}" THEN query
          ELSE <<Head(template)>>)
         \o format_fields(Tail(template), context, query)

\* prompt_template.format(context=context, query=query): KeyError or
\* IndexError for a field that is neither of the two
str_format(template, context, query) ==
    IF \E i \in 1..Len(template) : template[i] \in UnknownFields
    THEN [outcome |-> "raise", value |-> NoValue]
    ELSE [outcome |-> "ok", value |-> format_fields(template, context, query)]

\* build_query_prompt(query, context, prompt_type)
build_query_prompt(prompts_config, query, context, prompt_type) ==
    LET general == DictGet(prompts_config, "general_prompt", <<>>)
        prompt_template == DictGet(prompts_config, prompt_type \o "_prompt", general)
    IN str_format(IF prompt_template = <<>> THEN MinimalTemplate ELSE prompt_template,
                  context, query)

(* --------------------- the functions of one query text ------------------ *)
\* the units a query is made of
QueryUnits ==
    {" ", "\n", "What is the ", "Survival", "survival", " rate?", "FEED", "fcr", "biomass",
     "stocking", "performance", "Pond", "hello"}

\* the query texts of up to MaxQuery units
QueryTexts == UNION {[1..n -> QueryUnits] : n \in 0..MaxQuery}

InitQuery ==
    /\ collection = <<>>
    /\ alive = TRUE
    /\ last \in {[op |-> "text", query |-> query, outcome |-> "ok", value |-> NoValue] :
                    query \in QueryTexts}

\* generate_embedding_for_query(query)
GenerateEmbeddingForQuery ==
    /\ last.op = "text"
    /\ LET r == embed_query(last.query)
       IN last' = [op |-> "generate_embedding_for_query", query |-> last.query,
                   outcome |-> r.outcome, value |-> r.value]
    /\ UNCHANGED <<collection, alive>>

\* detect_query_type(query)
DetectQueryType ==
    /\ last.op = "text"
    /\ last' = [op |-> "detect_query_type", query |-> last.query, outcome |-> "ok",
                value |-> detect_query_type(last.query)]
    /\ UNCHANGED <<collection, alive>>

NextQuery == GenerateEmbeddingForQuery \/ DetectQueryType

SpecQuery == InitQuery /\ [][NextQuery]_vars

(* ------------------ the prompt builder on one configuration ------------- *)
SurvivalTemplate == <<"Survival data:\n", "{context}", "\nSurvival question: ", "{query}">>

GeneralTemplate == <<"Context:\n", "{context}", "\nQuestion: ", "{query}">>

\* a template with a field of its own
PondTemplate == <<"Pond ", "{pond}", ":\n", "{context}", "\n", "{query}">>

\* prompts.yaml: for each key no entry, an empty template, or a template
PromptConfigs ==
    {category \o general :
        category \in {<<>>} \cup {<< <<"survival_analysis_prompt", template>> >> :
                                    template \in {<<>>, SurvivalTemplate, PondTemplate}},
        general \in {<<>>} \cup {<< <<"general_prompt", template>> >> :
                                   template \in {<<>>, GeneralTemplate}}}

PromptTypes == {"survival_analysis", "biomass", "general"}

\* the queries and contexts a prompt is built for
PromptQueries == {<<"hello">>, <<"What is the ", "survival", " rate?">>}

PromptContexts == {<<"No relevant documents found.">>, <<"Pond: A", "\n", "{query}">>}

InitPrompt ==
    /\ collection = <<>>
    /\ alive = TRUE
    /\ last \in {[op |-> "PromptBuilder", prompts_config |-> prompts_config,
                   query |-> <<>>, context |-> <<>>, prompt_type |-> "general",
                   outcome |-> "ok", value |-> <<>>] :
                    prompts_config \in PromptConfigs}

\* build_query_prompt(query, context, prompt_type)
BuildQueryPrompt(query, context, prompt_type) ==
    /\ last.op = "PromptBuilder"
    /\ LET r == build_query_prompt(last.prompts_config, query, context, prompt_type)
       IN last' = [op |-> "build_query_prompt", prompts_config |-> last.prompts_config,
                   query |-> query, context |-> context, prompt_type |-> prompt_type,
                   outcome |-> r.outcome, value |-> r.value]
    /\ UNCHANGED <<collection, alive>>

NextPrompt ==
    \E query \in PromptQueries, context \in PromptContexts, prompt_type \in PromptTypes :
        BuildQueryPrompt(query, context, prompt_type)

SpecPrompt == InitPrompt /\ [][NextPrompt]_vars

(* ------------------- the pipelines built in one process ----------------- *)
\* _config_instance = None
NoInstance == "None"

\* the directories a pipeline is constructed with; the last one does not exist
ConfigDirs == {"./config", "./config_a", "./config_b", "./missing"}

\* config_dir_path.exists()
dir_exists(config_dir) == config_dir # "./missing"

\* get_config_loader(config_dir): the global instance, created on the first
\* call only; ConfigLoader raises ValueError for a directory that is not there
get_config_loader(instance, config_dir) ==
    IF instance # NoInstance
    THEN [outcome |-> "ok", instance |-> instance, value |-> instance]
    ELSE IF ~dir_exists(config_dir)
         THEN [outcome |-> "raise", instance |-> instance, value |-> NoValue]
         ELSE [outcome |-> "ok", instance |-> config_dir, value |-> config_dir]

InitConfig ==
    /\ collection = <<>>
    /\ alive = TRUE
    /\ last = [op |-> "import", outcome |-> "ok", instance |-> NoInstance,
               pipelines |-> <<>>]

\* RAGPipeline(config_dir): settings and prompts come from the loader that
\* get_config_loader returns
ConstructPipeline(config_dir) ==
    /\ Len(last.pipelines) < MaxPipelines
    /\ LET loader == get_config_loader(last.instance, config_dir)
       IN last' = [op |-> "RAGPipeline", outcome |-> loader.outcome,
                   instance |-> loader.instance,
                   pipelines |-> IF loader.outcome = "raise" THEN last.pipelines
                                 ELSE Append(last.pipelines,
                                             [config_dir |-> config_dir,
                                              settings_from |-> loader.value])]
    /\ UNCHANGED <<collection, alive>>

NextConfig == \E config_dir \in ConfigDirs : ConstructPipeline(config_dir)

SpecConfig == InitConfig /\ [][NextConfig]_vars

(* ---------------------- the chunker on one text ------------------------- *)
\* the characters of a text: a letter, a space, a line break
Characters == {"a", " ", "\n"}

\* the texts of up to MaxText characters
Texts == UNION {[1..n -> Characters] : n \in 0..MaxText}

\* the chunk sizes and the overlaps the splitter is built with
ChunkSizes == 2..MaxChunkSize

ChunkOverlaps == {0, ChunkOverlap}

InitChunk ==
    /\ collection = <<>>
    /\ alive = TRUE
    /\ last \in {[op |-> "text", text |-> text, chunk_size |-> chunk_size,
                   chunk_overlap |-> chunk_overlap, value |-> <<>>] :
                    text \in Texts, chunk_size \in ChunkSizes,
                    chunk_overlap \in ChunkOverlaps}

\* split_text(text) of a splitter with the pipeline's separators
SplitText ==
    /\ last.op = "text"
    /\ last' = [last EXCEPT !.op = "split_text",
                            !.value = split_text(last.text, Separators, last.chunk_size,
                                                 last.chunk_overlap)]
    /\ UNCHANGED <<collection, alive>>

NextChunk == SplitText

SpecChunk == InitChunk /\ [][NextChunk]_vars

(* ------------------------------ properties ------------------------------ *)
\* the queries that pass the empty-query check
AskedQueries == Queries \ {<<>>}

\* the entries of coll whose metadata field equals value
Holding(coll, field, value) == {i \in 1..Len(coll) : coll[i].metadata[field] = value}

\* C1: for every store content, query, top_k, metadata filter and
\* similarity_threshold t, retrieve never returns a result whose
\* similarity_score is below t (in particular for t = 0.9 and top_k = 5).
C1_RetrieveRespectsThreshold ==
    last.op = "retrieve" =>
        \A q \in AskedQueries, top_k \in TopKs, t \in Thresholds, f \in Filters :
            \A r \in retrieve_returns(collection, alive, q, top_k, t, f, FALSE) :
                r.outcome = "ok" =>
                    \A i \in 1..Len(r.value) : r.value[i].similarity_score >= t

\* retrieve(q, top_k = 5, similarity_threshold = 0.9) returned a stored entry
\* and dropped another one that scores below 0.9
C1_Witness ==
    /\ last = [op |-> "retrieve", outcome |-> "ok"]
    /\ \E r \in retrieve_returns(collection, alive, <<"Pond: A">>, DefaultTopK,
                                  One - 1, NoFilter, FALSE) :
          /\ r.outcome = "ok"
          /\ Len(r.value) >= 1
          /\ Len(r.value) < Len(collection)

\* C2: retrieve_by_pond / retrieve_by_status return only entries whose pond /
\* status metadata equals the given value, and never more results than the
\* number of stored chunks carrying that value (after ingesting records of
\* ponds A, B, A: only pond-A results, at most the chunks of the A records).
C2_FilterVariantsMatch ==
    last.op \in {"retrieve_by_pond", "retrieve_by_status"} =>
        \A q \in AskedQueries, top_k \in TopKs :
            /\ \A pond_name \in Ponds :
                  \A r \in retrieve_by_pond(collection, alive, q, pond_name, top_k, FALSE) :
                      r.outcome = "ok" =>
                          /\ \A i \in 1..Len(r.value) : r.value[i].metadata.pond = pond_name
                          /\ Len(r.value) <= Cardinality(Holding(collection, "pond", pond_name))
            /\ \A status \in Statuses :
                  \A r \in retrieve_by_status(collection, alive, q, status, top_k, FALSE) :
                      r.outcome = "ok" =>
                          /\ \A i \in 1..Len(r.value) : r.value[i].metadata.status = status
                          /\ Len(r.value) <= Cardinality(Holding(collection, "status", status))

\* one file with the ponds A, B, A was ingested and retrieve_by_pond(query, "A")
\* returned the two pond-A chunks
C2_Witness ==
    /\ last = [op |-> "retrieve_by_pond", outcome |-> "ok"]
    /\ Len(collection) = 3
    /\ [i \in 1..3 |-> collection[i].metadata.pond.v] = << <<"A">>, <<"B">>, <<"A">> >>
    /\ [i \in 1..3 |-> collection[i].metadata.record_index] = <<0, 1, 2>>
    /\ \E r \in retrieve_by_pond(collection, alive, <<"Pond: A">>, Str(<<"A">>), DefaultTopK, FALSE) :
          r.outcome = "ok" /\ Len(r.value) = 2

\* the document lists an add_documents call may bring to the current store
Addable == {documents \in DocumentLists : Len(collection) + Len(documents) <= MaxStore}

\* the uuid prefixes one call may draw for n documents
UuidDraws(n) == [1..n -> UuidPrefixes]

\* C3: a successful add_documents call with N documents and N embeddings
\* returns N and increases count() by exactly N, for every N >= 0, every prior
\* store content and every batch_size >= 1.
C3_AddReturnsAndCountsN ==
    \A documents \in Addable, batch_size \in BatchSizes :
        \A uuids \in UuidDraws(Len(documents)) :
            LET r == add_documents(collection, alive, documents,
                                   generate_embeddings(page_contents(documents)),
                                   batch_size, uuids, {})
            IN r.outcome = "ok" =>
                  /\ r.value = Len(documents)
                  /\ Len(r.collection) = Len(collection) + Len(documents)

\* C4: the ids add_documents assigns are unique: over any sequence of calls
\* on one collection, no two persisted entries and no two entries of one
\* batch ever get the same id.
C4_AssignedIdsUnique ==
    /\ \A a, b \in 1..Len(collection) : a # b => collection[a].id # collection[b].id
    /\ \A documents \in Addable :
          \A uuids \in UuidDraws(Len(documents)) :
              LET embeddings == generate_embeddings(page_contents(documents))
                  assigned == [j \in 1..Len(documents) |->
                                  build_entry(documents[j], embeddings[j], uuids[j], j - 1).id]
              IN /\ \A a, b \in 1..Len(documents) : a # b => assigned[a] # assigned[b]
                 /\ \A j \in 1..Len(documents) : assigned[j] \notin Ids(collection)

C6_SearchOfNothingIsEmpty ==
    (last.op = "search" /\ alive) =>
        \A query_embedding \in QueryVectors, top_k \in TopKs, f \in Filters :
            Matching(collection, f) = {} =>
                \A r \in search_returns(collection, alive, query_embedding, top_k, f, FALSE) :
                    r.outcome = "ok" /\ r.value = <<>>

\* search has returned on a collection without entries
C6_Witness ==
    /\ last = [op |-> "search", outcome |-> "ok"]
    /\ collection = <<>>
    /\ \E r \in search_returns(collection, alive, Encode(<<"Pond: A">>), DefaultTopK,
                                NoFilter, FALSE) :
          r.outcome = "ok" /\ r.value = <<>>

\* at most top_k rows, by ascending distance and non-increasing similarity_score
TopKAscending(rows, top_k) ==
    /\ Len(rows) <= top_k
    /\ \A i, j \in 1..Len(rows) :
          i < j => /\ rows[i].distance <= rows[j].distance
                   /\ rows[i].similarity_score >= rows[j].similarity_score

\* the position at which coll holds the entry of a result row
PositionOf(coll, row) == CHOOSE p \in 1..Len(coll) : coll[p].id = row.id

\* rows at equal distance come in the order in which their entries were inserted
TiesByInsertion(coll, rows) ==
    \A i, j \in 1..Len(rows) :
        (i < j /\ rows[i].distance = rows[j].distance) =>
            PositionOf(coll, rows[i]) < PositionOf(coll, rows[j])

\* C7 (as amended): search returns at most top_k results, ordered by
\* ascending distance (non-increasing similarity_score); the order among
\* results at equal distance is the index's, not fixed by search.
C7_SearchTopKAscending ==
    last.op = "search" =>
        \A query_embedding \in QueryVectors, top_k \in TopKs, f \in Filters :
            \A r \in search_returns(collection, alive, query_embedding, top_k, f, FALSE) :
                r.outcome = "ok" => TopKAscending(r.value, top_k)

\* C7 (as stated): search returns at most top_k results, ordered by ascending
\* distance, with ties in distance ordered by insertion/id order.
C7_SearchTiesByInsertion ==
    last.op = "search" =>
        \A query_embedding \in QueryVectors, top_k \in TopKs, f \in Filters :
            \A r \in search_returns(collection, alive, query_embedding, top_k, f, FALSE) :
                r.outcome = "ok" =>
                    TopKAscending(r.value, top_k) /\ TiesByInsertion(collection, r.value)

\* search with top_k = 2 has cut a larger store down to its two nearest
\* entries, the nearer one first
C7_Witness ==
    /\ last = [op |-> "search", outcome |-> "ok"]
    /\ Len(collection) > 2
    /\ \E r \in search_returns(collection, alive, Encode(<<"Pond: A">>), 2, NoFilter, FALSE) :
          /\ r.outcome = "ok"
          /\ Len(r.value) = 2
          /\ r.value[1].distance < r.value[2].distance

\* C8: after reset_vectorstore completes, count() is 0 whatever had been
\* ingested before, a query then retrieves nothing, and every document a
\* query retrieves is an entry of the collection as it is now, so entries
\* ingested before the reset are never returned by a later query.
C8_ResetEmptiesStore ==
    /\ last = [op |-> "reset_vectorstore", outcome |-> "ok"] =>
          /\ Len(collection) = 0
          /\ alive
          /\ \A q \in AskedQueries, top_k \in TopKs :
                \A r \in query_returns(collection, alive, q, top_k, FALSE, FALSE) :
                    /\ r.outcome = "ok"
                    /\ r.value.retrieved_documents = <<>>
                    /\ r.value.num_documents_retrieved = 0
    /\ last.op = "query" =>
          \A q \in AskedQueries, top_k \in TopKs :
              \A r \in query_returns(collection, alive, q, top_k, FALSE, FALSE) :
                  r.outcome = "ok" =>
                      \A i \in 1..Len(r.value.retrieved_documents) :
                          \E p \in 1..Len(collection) :
                              /\ collection[p].id = r.value.retrieved_documents[i].id
                              /\ collection[p].content = r.value.retrieved_documents[i].content

\* reset_vectorstore has completed: the store counts 0 and a query finds nothing
C8_Witness ==
    /\ last = [op |-> "reset_vectorstore", outcome |-> "ok"]
    /\ Len(collection) = 0
    /\ \E r \in query_returns(collection, alive, <<"Pond: A">>, DefaultTopK, FALSE, FALSE) :
          r.outcome = "ok" /\ r.value.num_documents_retrieved = 0

\* reset_vectorstore called on (coll, bound) with no backend fault succeeds
\* and leaves the empty usable collection that (coll, bound) already is
ResetChangesNothing(coll, bound) ==
    LET again == reset_vectorstore(coll, bound, "none")
    IN /\ again.outcome = "ok"
       /\ again.collection = coll
       /\ again.alive = bound
       /\ coll = <<>>
       /\ bound

\* C9: reset is idempotent: calling reset_vectorstore twice in a row (or on
\* an already empty collection) succeeds both times and leaves the same
\* state as calling it once, an empty usable collection.
C9_ResetIdempotent ==
    /\ last = [op |-> "reset_vectorstore", outcome |-> "ok"] =>
          ResetChangesNothing(collection, alive)
    /\ (collection = <<>> /\ alive) => ResetChangesNothing(collection, alive)
    /\ alive =>
          LET once == reset_vectorstore(collection, alive, "none")
              twice == reset_vectorstore(once.collection, once.alive, "none")
          IN once.outcome = "ok" /\ twice.outcome = "ok"
             /\ twice.collection = once.collection /\ twice.alive = once.alive

\* a reset has succeeded and the next reset succeeds as well
C9_Witness ==
    /\ last = [op |-> "reset_vectorstore", outcome |-> "ok"]
    /\ reset_vectorstore(collection, alive, "none") =
          [collection |-> <<>>, alive |-> TRUE, outcome |-> "ok"]

ReadOps == {"search", "retrieve", "retrieve_by_pond", "retrieve_by_status", "query"}

\* C10: persisted entries are removed only by a full collection delete/reset:
\* over any sequence of ingest_data, add_documents, retrieve/query and reset
\* calls, count() never decreases and no stored entry changes except at a
\* reset, and the read calls leave the collection unchanged.
C10_RemovedOnlyByReset ==
    [][/\ last'.op # "reset_vectorstore" =>
             /\ Len(collection') >= Len(collection)
             /\ SubSeq(collection', 1, Len(collection)) = collection
       /\ last'.op \in ReadOps => collection' = collection]_vars

\* a query has returned on a store that holds several entries
C10_Witness ==
    /\ last = [op |-> "query", outcome |-> "ok"]
    /\ Len(collection) >= 2

\* the staged input files an ingest_data call may bring to the current store
Ingestable == {inp \in IngestInputs : Len(collection) + Len(inp.chunks) <= MaxStore}

\* C11: ingest_data returns the number of entries actually added to the
\* store: the value it returns equals the increase of count(), also when
\* records were skipped, and it is 0 with no error and the store unchanged
\* when the file has no records or every record is skipped.
C11_IngestReturnsCountIncrease ==
    \A inp \in Ingestable :
        \A uuids \in UuidDraws(Len(inp.chunks)) :
            LET r == ingest_store(collection, alive, inp, uuids, {})
            IN r.outcome = "ok" =>
                  /\ r.value = Len(r.collection) - Len(collection)
                  /\ inp.chunks = <<>> => (r.value = 0 /\ r.collection = collection)

\* t is s without the white space at its two ends
IsTrimOf(t, s) ==
    /\ t # <<>> => (t[1] \notin Whitespace /\ t[Len(t)] \notin Whitespace)
    /\ \E a \in 0..Len(s) : \E b \in a..Len(s) :
          /\ t = SubSeq(s, a + 1, b)
          /\ \A i \in (1..a) \cup ((b + 1)..Len(s)) : s[i] \in Whitespace

\* the item of record that decides the value under key: the last one whose
\* key trims to key
Decides(record, i, key) ==
    /\ IsTrimOf(key, record[i][1])
    /\ \A j \in (i + 1)..Len(record) : ~IsTrimOf(key, record[j][1])

C13_NormalizeIdempotent ==
    last.op = "_clean_record" =>
        /\ clean_record(Mapping(last.value)) = last.value
        /\ last.calls = MaxCalls => last.value = last.arg

\* a record with padded keys that trim to the same key and a padded string
\* was normalized and the result normalized again, with no change
C13_Witness ==
    /\ last.op = "_clean_record"
    /\ last.calls = 2
    /\ last.value = last.arg
    /\ \E i \in 1..Len(last.value) : last.value[i] = << <<"Pond">>, Str(<<"x", "y">>) >>
    /\ \E i \in 1..Len(last.value) : last.value[i][1] = <<"Feed">>

\* C14 (as the code has it): the keys of a normalized record are the trimmed
\* keys of the input record, each once and none added: every input key
\* yields the entry under its trimmed key, input keys that trim to the same
\* key share one entry, so the record never grows.
C14_KeysAreTrimmedInputKeys ==
    last.op = "_clean_record" =>
        /\ DictKeys(last.value) = {strip(key) : key \in DictKeys(last.arg)}
        /\ Cardinality(DictKeys(last.value)) = Len(last.value)
        /\ Len(last.value) <= Len(last.arg)

\* C14 (as stated): a normalized record has the same key set as its input
\* record, with exactly one output entry per input key.
C14_SameKeySet ==
    last.op = "_clean_record" =>
        /\ DictKeys(last.value) = DictKeys(last.arg)
        /\ Len(last.value) = Len(last.arg)

\* a record with the keys "Pond" and " Pond" was normalized to a record with
\* the one key "Pond"
C14_Witness ==
    /\ last.op = "_clean_record"
    /\ last.calls = 1
    /\ {<<"Pond">>, <<" ", "Pond">>} \subseteq DictKeys(last.arg)
    /\ <<" ", "Pond">> \notin DictKeys(last.value)
    /\ Len(last.value) = Len(last.arg) - 1

\* the keys that have a line of their own at the head of the content
PinnedKeys == {<<"Pond">>, <<"Crop ID">>, <<"status">>}

\* the items of record under the keys that are not pinned, in their order
Remaining(record) == SelectSeq(record, LAMBDA item : item[1] \notin PinnedKeys)

\* the text shown for key: the value under it, "Unknown" when it is absent
Shown(record, key) ==
    IF \E i \in 1..Len(record) : record[i][1] = key
    THEN format_value((CHOOSE item \in Range(record) : item[1] = key)[2])
    ELSE "Unknown"

\* C17: the content of a document is the lines for pond, crop id (from the
\* "Crop ID" key) and status in that order, each with "Unknown" when the key
\* is absent, one blank line, then one "Key: Value" line for every remaining
\* key of the record in its iteration order; the pinned keys are not repeated
\* among the remaining lines and no other key is dropped.
C17_ContentLayout ==
    last.op = "_format_record_as_text" =>
        LET rest == Remaining(last.arg)
            text == last.value
        IN /\ Len(text) = 6 + 2 * Len(rest)
           /\ text[1] = "Pond: " \o Shown(last.arg, <<"Pond">>)
           /\ text[3] = "Crop ID: " \o Shown(last.arg, <<"Crop ID">>)
           /\ text[5] = "Status: " \o Shown(last.arg, <<"status">>)
           /\ text[2] = "\n" /\ text[4] = "\n" /\ text[6] = "\n"
           /\ \A j \in 1..Len(rest) :
                 /\ text[5 + 2 * j] = "\n"
                 /\ text[6 + 2 * j] = concat(rest[j][1]) \o ": " \o format_value(rest[j][2])

\* a normalized record with a pond, a status, no crop id and two more keys
\* was formatted: three head lines, the blank line, the two other lines
C17_Witness ==
    /\ last.op = "_format_record_as_text"
    /\ last.calls = 1
    /\ [i \in 1..Len(last.arg) |-> last.arg[i][1]] =
          << <<"status">>, <<"Notes">>, <<"Feed">>, <<"Pond">> >>
    /\ Len(last.value) = 10
    /\ last.value[1] = "Pond: ['C2', 'C3']"
    /\ last.value[3] = "Crop ID: Unknown"
    /\ last.value[5] = "Status: N/A"
    /\ last.value[8] = "Notes: xy"
    /\ last.value[10] = "Feed: 12"

\* the positions of the records that normalize without an error
Kept(records) ==
    SelectSeq([i \in 1..Len(records) |-> i], LAMBDA i : records[i].kind = "mapping")

\* C15: when normalizing one record fails, preprocess_records skips that
\* record and does not raise: the output is exactly the normalized forms of
\* the records that did not fail, in their input order, and the records
\* after a failing one are still processed.
C15_FailingRecordSkipped ==
    last.op = "preprocess_records" =>
        LET kept == Kept(last.records)
        IN /\ last.outcome = "ok"
           /\ Len(last.value) = Len(kept)
           /\ \A i \in 1..Len(kept) : last.value[i] = clean_record(last.records[kept[i]])

\* of three records the second failed, and the output holds the normalized
\* first and third
C15_Witness ==
    /\ last.op = "preprocess_records"
    /\ last.records = <<rA, rScalar, rB>>
    /\ last.value = <<clean_record(rA), clean_record(rB)>>

\* C18: for every document produced on the ingest path (preprocess_records,
\* then convert_to_documents), metadata.record_index is the 0-based position
\* of the document's record in the sequence of records given to ingestion.
C18_RecordIndexIsInputPosition ==
    last.op = "convert_to_documents" =>
        LET kept == Kept(last.records)
        IN /\ Len(last.value) = Len(kept)
           /\ \A i \in 1..Len(last.value) :
                 last.value[i].metadata.record_index = kept[i] - 1

\* the top-level value holds the records as a list: it is an array, or an
\* object whose "data" key holds an array
HoldsList(file) ==
    \/ file.top = "array"
    \/ file.top = "object" /\ file.data # <<>> /\ file.data[1].top = "array"

\* the elements of that list
ListOf(file) == IF file.top = "array" THEN file.records ELSE file.data[1].records

\* a list of record-like mappings
WellFormed(file) ==
    HoldsList(file) /\ \A i \in 1..Len(ListOf(file)) : ListOf(file)[i].kind = "mapping"

\* C16: ingestion of a JSON file fails with an error and adds nothing to the
\* store if the top-level value is an object without a usable array under
\* "data", or if the structure is not a list of record-like mappings (a list
\* whose elements are strings or numbers); it succeeds for a top-level array
\* of records and for an object whose "data" key holds that array.
C16_IngestFailsOnBadStructure ==
    alive =>
        \A inp \in Ingestable :
            \A uuids \in UuidDraws(Len(inp.chunks)) :
                LET r == ingest_store(collection, alive, inp, uuids, {})
                IN IF WellFormed(inp.file)
                   THEN r.outcome = "ok"
                   ELSE r.outcome = "raise" /\ r.collection = collection

\* the documents ingest_data makes of a file before it splits them
DocumentsOf(file) ==
    convert_to_documents(preprocess_records(load_json(file).value), DataSource)

\* the number of chunks the splitter cuts a document into
ChunksIn(doc) == Len(split_text(doc.page_content, Separators, ChunkSize, ChunkOverlap))

\* the document the k-th chunk (from 1) of a list of documents was cut from
RECURSIVE ParentOf(_, _)
ParentOf(documents, k) ==
    IF k <= ChunksIn(Head(documents)) THEN Head(documents)
    ELSE ParentOf(Tail(documents), k - ChunksIn(Head(documents)))

\* string, number or bool
IsScalar(value) == value.t \in {"str", "int", "float", "bool"}

DocumentFields == {"source", "record_index", "pond", "crop_id", "status"}

\* C19: every entry persisted by ingest_data carries, unchanged, the source,
\* record_index, pond, crop_id and status of the document its chunk was cut
\* from, and every metadata value of a persisted entry is a scalar (string,
\* number or bool).
C19_EntriesCarryParentMetadata ==
    /\ \A i \in 1..Len(collection) :
          LET metadata == collection[i].metadata
          IN /\ metadata.source = DataSource
             /\ metadata.record_index \in Nat
             /\ metadata.doc_index \in Nat
             /\ metadata.content_length \in Nat
             /\ IsScalar(metadata.pond)
             /\ IsScalar(metadata.crop_id)
             /\ IsScalar(metadata.status)
    /\ last.op = "ingest_data" =>
          \A inp \in {staged \in Ingestable : staged.outcome = "ok"} :
              \A uuids \in UuidDraws(Len(inp.chunks)) :
                  LET r == ingest_store(collection, alive, inp, uuids, {})
                  IN \A i \in (Len(collection) + 1)..Len(r.collection) :
                        LET entry == r.collection[i]
                            parent == ParentOf(DocumentsOf(inp.file),
                                               entry.metadata.doc_index + 1)
                        IN \A field \in DocumentFields :
                              entry.metadata[field] = parent.metadata[field]

\* a file of two records was ingested, the second record cut into two
\* chunks, and both chunks carry the metadata of the second document
C19_Witness ==
    /\ last = [op |-> "ingest_data", outcome |-> "ok"]
    /\ Len(collection) = 3
    /\ [i \in 1..3 |-> collection[i].metadata.doc_index] = <<0, 1, 2>>
    /\ [i \in 1..3 |-> collection[i].metadata.record_index] = <<0, 1, 1>>
    /\ collection[1].metadata.pond = Str(<<"B">>)
    /\ collection[2].metadata.status = Str(<<"N/A">>)
    /\ collection[3].metadata.status = Str(<<"N/A">>)

\* C20: for any document whose content is longer than max_chunk_size
\* (separators paragraph break, line break, space, empty string), every
\* chunk the chunker produces has length at most max_chunk_size.
C20_ChunksWithinChunkSize ==
    (last.op = "split_text" /\ Len(last.text) > last.chunk_size) =>
        \A k \in 1..Len(last.value) : Len(last.value[k]) <= last.chunk_size

\* a text of two words, each longer than chunk_size, was cut into chunks of
\* which one is as long as chunk_size
C20_Witness ==
    /\ last.op = "split_text"
    /\ last.text = <<"a", "a", "a", " ", "a", "a", "a">>
    /\ last.chunk_size = 2
    /\ Len(last.value) >= 3
    /\ \E k \in 1..Len(last.value) : Len(last.value[k]) = last.chunk_size

\* head is at the end of text
ends_with(text, head) ==
    Len(head) <= Len(text) /\ SubSeq(text, Len(text) - Len(head) + 1, Len(text)) = head

\* the chunks, each without a head it repeats from the end of the chunk
\* before it, laid end to end give the text
RECURSIVE Rebuilds(_, _, _)
Rebuilds(chunks, text, previous) ==
    IF chunks = <<>> THEN text = <<>>
    ELSE LET chunk == Head(chunks)
         IN \E o \in 0..Len(chunk) :
               /\ ends_with(previous, SubSeq(chunk, 1, o))
               /\ starts_with(text, SubSeq(chunk, o + 1, Len(chunk)))
               /\ Rebuilds(Tail(chunks), SubSeq(text, Len(chunk) - o + 1, Len(text)), chunk)

\* C21: for any document, concatenating the unique (non-overlapping) spans
\* of its chunks in order reconstructs the document's content exactly: no
\* character, separators and white space at chunk boundaries included, is
\* lost or reordered.
C21_ChunksRebuildContent ==
    last.op = "split_text" => Rebuilds(last.value, last.text, <<>>)

\* the text is empty or only white space
IsBlank(text) == \A i \in 1..Len(text) : text[i] \in Whitespace

\* C22: generate_embedding_for_query fails with an input error for every
\* text that is empty or blank (white space only), and for every other text
\* returns the first vector of generate_embeddings([text]).
C22_EmbedOneRejectsBlank ==
    last.op = "generate_embedding_for_query" =>
        IF IsBlank(last.query)
        THEN last.outcome = "raise"
        ELSE last.outcome = "ok" /\ last.value = generate_embeddings(<<last.query>>)[1]

\* the places in the keyword table of the keywords that occur in the
\* lower-cased query, at any position
Occurring(query) ==
    {k \in 1..Len(KeywordMapping) :
        \E i \in 1..Len(query) : lower_unit(query[i]) = KeywordMapping[k][1]}

\* C25: detect_query_type lower-cases the query and returns the category of
\* the first keyword, in the table order survival, feed, fcr, biomass,
\* stocking, performance, pond, that occurs in the query, whatever the
\* position of the keywords inside the query; it returns "general" when no
\* keyword occurs.
C25_FirstKeywordInTableOrder ==
    last.op = "detect_query_type" =>
        LET occurring == Occurring(last.query)
        IN IF occurring = {}
           THEN last.value = "general"
           ELSE \E k \in occurring :
                   /\ \A j \in occurring : k <= j
                   /\ last.value = KeywordMapping[k][2]

\* "What is the survival rate?" was detected as survival_analysis
C25_Witness ==
    /\ last.op = "detect_query_type"
    /\ last.query = <<"What is the ", "survival", " rate?">>
    /\ last.value = "survival_analysis"

\* the template a key of the configuration resolves to: <<>> when the key
\* is absent or its template is empty
Resolved(prompts_config, key) ==
    IF \E i \in 1..Len(prompts_config) : prompts_config[i][1] = key
    THEN (CHOOSE item \in Range(prompts_config) : item[1] = key)[2]
    ELSE <<>>

\* C26: build_query_prompt never fails: for every prompts configuration (no
\* templates, templates for only some categories, empty templates) and
\* every category it returns the category's template if one resolves,
\* otherwise the general template if one resolves, otherwise the hardcoded
\* minimal template, with {context} and {query} replaced by the given
\* context and query.
C26_PromptFallsBackInOrder ==
    last.op = "build_query_prompt" =>
        LET own == Resolved(last.prompts_config, last.prompt_type \o "_prompt")
            general == Resolved(last.prompts_config, "general_prompt")
            template == IF own # <<>> THEN own
                        ELSE IF general # <<>> THEN general
                        ELSE MinimalTemplate
        IN /\ last.outcome = "ok"
           /\ last.value = format_fields(template, last.context, last.query)

\* C23: an empty query is rejected immediately: RAGPipeline.query and
\* Retriever.retrieve with an empty query raise the input error before the
\* vector store is searched and before the generation service is called,
\* and nothing is retried, whatever the store holds and whether or not the
\* backends would fail.
C23_EmptyQueryRejectedFirst ==
    last.op \in {"retrieve", "query"} =>
        \A top_k \in TopKs, fault \in BOOLEAN :
            /\ \A similarity_threshold \in Thresholds, where_filter \in Filters :
                  \A r \in retrieve_returns(collection, alive, <<>>, top_k,
                                            similarity_threshold, where_filter, fault) :
                      /\ r.outcome = "raise"
                      /\ r.error = EmptyQueryError
                      /\ r.calls = <<>>
            /\ \A llmFault \in BOOLEAN :
                  \A r \in query_returns(collection, alive, <<>>, top_k, fault, llmFault) :
                      /\ r.outcome = "raise"
                      /\ r.error = EmptyQueryError
                      /\ r.calls = <<>>

\* retrieve was called with the empty query on a store that holds entries
\* and raised, while the same call with a query returns results
C23_Witness ==
    /\ last = [op |-> "retrieve", outcome |-> "raise"]
    /\ alive
    /\ Len(collection) >= 2
    /\ \A r \in retrieve_returns(collection, alive, <<>>, DefaultTopK, DefaultThreshold,
                                 NoFilter, FALSE) : r.calls = <<>>
    /\ \E r \in retrieve_returns(collection, alive, <<"Pond: A">>, DefaultTopK,
                                 DefaultThreshold, NoFilter, FALSE) :
          r.outcome = "ok" /\ r.calls = <<"collection.query">>

\* C24: backend failures are propagated, never masked: if the vector-store
\* search raises, retrieve and RAGPipeline.query raise that same error (no
\* empty result, no retry) and the generation service is not called; if the
\* generation service raises, RAGPipeline.query raises that same error and
\* returns no result.
C24_BackendFailuresPropagate ==
    last.op = "query" =>
        \A q \in AskedQueries, top_k \in TopKs, fault \in BOOLEAN :
            LET searched == search_returns(collection, alive,
                                           generate_embedding_for_query(q), top_k,
                                           NoFilter, fault)
            IN /\ (\E s \in searched : s.outcome = "raise") =>
                     /\ \A r \in retrieve_returns(collection, alive, q, top_k,
                                                  DefaultThreshold, NoFilter, fault) :
                           /\ r.outcome = "raise"
                           /\ r.value = NoValue
                           /\ \E s \in searched : r.error = s.error
                           /\ r.calls = <<"collection.query">>
                     /\ \A llmFault \in BOOLEAN :
                           \A r \in query_returns(collection, alive, q, top_k, fault,
                                                  llmFault) :
                               /\ r.outcome = "raise"
                               /\ r.value = NoValue
                               /\ \E s \in searched : r.error = s.error
                               /\ r.calls = <<"collection.query">>
               /\ (\A s \in searched : s.outcome = "ok") =>
                     \A r \in query_returns(collection, alive, q, top_k, fault, TRUE) :
                         /\ r.outcome = "raise"
                         /\ r.value = NoValue
                         /\ r.error = GenerationError
                         /\ r.calls = <<"collection.query", "llm.generate">>

\* query was called on a store whose collection is gone and raised the
\* error of the search, without a call of the generation service
C24_Witness ==
    /\ last = [op |-> "query", outcome |-> "raise"]
    /\ ~alive
    /\ \A r \in query_returns(collection, alive, <<"Pond: A">>, DefaultTopK, FALSE, FALSE) :
          /\ r.outcome = "raise"
          /\ r.error = QueryError(alive)
          /\ r.calls = <<"collection.query">>

\* C27: in the list retrieve returns, each result's rank is its 1-based
\* position: the ranks are exactly 1..m with no gap, for every
\* similarity_threshold, because threshold filtering removes only a tail of
\* the distance-ordered results of the store.
C27_RanksArePositions ==
    last.op = "retrieve" =>
        \A q \in AskedQueries, top_k \in TopKs, similarity_threshold \in Thresholds,
           where_filter \in Filters :
            \A r \in retrieve_returns(collection, alive, q, top_k, similarity_threshold,
                                      where_filter, FALSE) :
                r.outcome = "ok" =>
                    \A i \in 1..Len(r.value) : r.value[i].rank = i

\* retrieve with the threshold 0.9 has returned, it drops the farther of
\* three stored entries, and the two results left carry the ranks 1 and 2
C27_Witness ==
    /\ last = [op |-> "retrieve", outcome |-> "ok"]
    /\ Len(collection) = 3
    /\ \E r \in retrieve_returns(collection, alive, <<"Pond: A">>, DefaultTopK,
                                 One - 1, NoFilter, FALSE) :
          /\ r.outcome = "ok"
          /\ [i \in 1..Len(r.value) |-> r.value[i].rank] = <<1, 2>>
          /\ r.value[1].similarity_score = One

\* the embeddings a caller may pass along with the documents: one too many,
\* or one too few
Mismatched(documents) ==
    LET embeddings == generate_embeddings(page_contents(documents))
    IN {Append(embeddings, 0)} \cup
       (IF documents = <<>> THEN {} ELSE {SubSeq(embeddings, 1, Len(embeddings) - 1)})

\* C30: add_documents called with a number of documents different from the
\* number of embeddings raises before anything is written: the collection's
\* entries and count() are unchanged by the failed call.
C30_LengthMismatchWritesNothing ==
    last.op = "add_documents" =>
        \A documents \in Addable, batch_size \in BatchSizes :
            \A embeddings \in Mismatched(documents),
               uuids \in UuidDraws(Len(documents)) :
                LET r == add_documents(collection, alive, documents, embeddings,
                                       batch_size, uuids, {})
                IN /\ r.outcome = "raise"
                   /\ r.value = NoValue
                   /\ r.collection = collection

\* add_documents has raised on a store that holds an entry, and a call with
\* two documents and one embedding leaves that store as it is
C30_Witness ==
    /\ last = [op |-> "add_documents", outcome |-> "raise"]
    /\ alive
    /\ Len(collection) = 1
    /\ \E documents \in Addable :
          /\ Len(documents) = 2
          /\ \A embeddings \in Mismatched(documents), uuids \in UuidDraws(2) :
                add_documents(collection, alive, documents, embeddings, 1, uuids, {})
                   = [collection |-> collection, outcome |-> "raise", value |-> NoValue]

\* C28: if reset_vectorstore fails after the collection was deleted and
\* before it was re-created, the pipeline is still recoverable: a later
\* reset_vectorstore call succeeds and leaves an empty usable collection, so
\* the store's collection handle never stays bound to a deleted collection.
C28_ResetRecovers ==
    ~alive =>
        reset_vectorstore(collection, alive, "none") =
            [collection |-> <<>>, alive |-> TRUE, outcome |-> "ok"]

\* C29: a RAGPipeline constructed with config_dir = D uses the settings and
\* prompts loaded from D, for every sequence of pipeline constructions in
\* one process (also when an earlier pipeline was constructed with a
\* different directory).
C29_PipelineUsesItsConfigDir ==
    \A i \in 1..Len(last.pipelines) :
        last.pipelines[i].settings_from = last.pipelines[i].config_dir

====
